---------------------------- MODULE Spec2Model ----------------------------
(***************************************************************************)
(* State-machine model of the Flask to-do application: the credential      *)
(* store and session handling of controllers/auth_controller.py and the    *)
(* ownership-scoped task routes of controllers/task_controller.py, over    *)
(* the tables declared in models/user.py.                                  *)
(*                                                                         *)
(* Strings are sequences of one-character strings, so that str.strip(),    *)
(* str.lower() and len() are computed rather than assumed.                 *)
(***************************************************************************)
EXTENDS Integers, Sequences, FiniteSets, TLC

VARIABLES
    users,        \* table users: set of rows [id, username, email, password_hash]
    tasks,        \* table tasks: set of rows [id, title, description, due_date, completed, created_at]
    task_owners,  \* table task_owners: set of rows [id, user_id, task_id]
    session,      \* per browser: the user id stored by login_user, or None
    pending,      \* per browser: a register request between its pre-check and its insert
    now,          \* the clock read by datetime.utcnow()
    resp,         \* the last request served and the response it got
    toggleHist,   \* per task id: the flag before the latest toggle, if the task's last write was a toggle (history)
    reading,      \* per browser: the row a toggle request has loaded and not yet written back
    listQuery     \* per browser: what a list request has queried so far, between its queries

vars == <<users, tasks, task_owners, session, pending, now, resp, toggleHist, reading,
          listQuery>>

\* Python's None for a text tag; optional values are sets of at most one element.
None == "None"
Absent == {}
Some(v) == {v}
The(opt) == CHOOSE v \in opt : TRUE

Clients == {"c1", "c2"}

(***************************************************************************)
(* Bounds                                                                  *)
(***************************************************************************)
MaxTasks == 2

TaskIds == 1..MaxTasks

(***************************************************************************)
(* Strings                                                                 *)
(***************************************************************************)
Str_a == <<"a">>
Str_b == <<"b">>
Str_A == <<"A">>
Str_sp_a_sp == <<" ", "a", " ">>
Str_ax == <<"a", "@", "x">>
Str_AX == <<"A", "@", "X">>
Str_bx == <<"b", "@", "x">>
Str_cx == <<"c", "@", "x">>
Str_c == <<"c">>
Str_blank == <<" ">>
Str_empty == <<>>
Pw_good == <<"s", "e", "c", "r", "e", "t">>
Pw_other == <<"s", "e", "c", "r", "e", "T">>
Pw_short == <<"s", "e", "c", "r", "e">>
Pw_blank == <<" ", " ", " ", " ", " ", " ">>

IsSpace(ch) == ch \in {" ", "\t", "\n"}

RECURSIVE lstrip(_)
lstrip(s) ==
    IF s = <<>> THEN <<>>
    ELSE IF IsSpace(Head(s)) THEN lstrip(Tail(s)) ELSE s

RECURSIVE rstrip(_)
rstrip(s) ==
    IF s = <<>> THEN <<>>
    ELSE IF IsSpace(s[Len(s)]) THEN rstrip(SubSeq(s, 1, Len(s) - 1)) ELSE s

\* str.strip()
strip(s) == rstrip(lstrip(s))

LowerChar(ch) ==
    CASE ch = "A" -> "a"
      [] ch = "B" -> "b"
      [] ch = "C" -> "c"
      [] ch = "T" -> "t"
      [] ch = "X" -> "x"
      [] OTHER -> ch

\* str.lower()
lower(s) == [i \in DOMAIN s |-> LowerChar(s[i])]

SetMax(Q) == IF Q = {} THEN 0 ELSE CHOOSE m \in Q : \A q \in Q : q <= m

(***************************************************************************)
(* Password hashing (werkzeug.security): a salted one-way digest.          *)
(***************************************************************************)
Salts == {"s1"}

generate_password_hash(password, salt) ==
    [method |-> "scrypt", salt |-> salt, digest |-> <<salt, password>>]

\* Mutant: every password verifies.
CheckAnyPassword(pwhash, password) == TRUE

check_password_hash(pwhash, password) ==
    pwhash.digest = <<pwhash.salt, password>>

\* User.check_password
check_password(user, password) == check_password_hash(user.password_hash, password)

(***************************************************************************)
(* Requests, responses and the session                                     *)
(***************************************************************************)
\* url_for(endpoint, task_id=...)
url_for(route, tid) ==
    CASE route = "register"    -> <<"/register">>
      [] route = "login"       -> <<"/login">>
      [] route = "logout"      -> <<"/logout">>
      [] route = "index"       -> <<"/">>
      [] route = "task_list"   -> <<"/tasks">>
      [] route = "task_create" -> <<"/tasks/new">>
      [] route = "task_detail" -> <<"/tasks/", tid>>
      [] route = "task_edit"   -> <<"/tasks/", tid, "/edit">>
      [] route = "task_delete" -> <<"/tasks/", tid, "/delete">>
      [] route = "task_toggle" -> <<"/tasks/", tid, "/toggle">>
      [] route = "api_tasks"   -> <<"/api/tasks">>

\* A request: tid is Absent or Some(task_id), the <int:task_id> of the URL;
\* form is Absent or Some(the submitted form or query arguments).
Request(c, route, method, tid, form) ==
    [client |-> c, route |-> route, method |-> method, tid |-> tid, form |-> form,
     path |-> url_for(route, IF tid = Absent THEN None ELSE The(tid))]

\* What the browser receives.
Out(status, location, next, flash, body) ==
    [status |-> status, location |-> location, next |-> next,
     flash |-> flash, body |-> body]

\* The request served and its response; prior is history: for a toggle, the
\* task's toggleHist when the request arrived; for a logout, the browser's
\* session when the request arrived.
Response(req, out) == [req |-> req, out |-> out, prior |-> Absent]

NoPath == <<>>
NoBody == [template |-> None, data |-> <<>>]

\* A request whose handler has not answered yet.
NoResponse == Out(0, NoPath, NoPath, None, NoBody)

render_template(template, flash, data) ==
    Out(200, NoPath, NoPath, flash, [template |-> template, data |-> data])

redirect(location, flash) == Out(302, location, NoPath, flash, NoBody)

\* load_user: the session's user id resolved against the users table.
load_user(user_id) == {u \in users : u.id \in user_id}

\* current_user.is_authenticated
is_authenticated(c) == load_user(session[c]) # {}

\* current_user.id
current_user_id(c) == The(session[c])

\* Mutant: no login_view is configured, so the guard answers 401.
UnauthorizedAbort(req) == Out(401, NoPath, NoPath, None, NoBody)

\* LoginManager.unauthorized: redirect to login_view with the requested path as next
unauthorized(req) ==
    Out(302, url_for("login", None), req.path, "login_message", NoBody)

\* @app.errorhandler(404)
not_found_error ==
    Out(404, NoPath, NoPath, None, [template |-> "error.html", data |-> <<"404">>])

\* @app.errorhandler(500): db.session.rollback() and the error page
internal_error ==
    Out(500, NoPath, NoPath, None, [template |-> "error.html", data |-> <<"500">>])

NoRequest ==
    [client |-> None, route |-> None, method |-> None, tid |-> Absent, form |-> Absent,
     path |-> NoPath]

\* No response is waiting to be sent.
Idle == Response(NoRequest, NoResponse)

\* Browser c has no request in progress and the server is free to take one.
Ready(c) ==
    resp = Idle /\ pending[c] = Absent /\ reading[c] = Absent /\ listQuery[c] = Absent

\* The response of the request just served goes out to the browser.
Deliver ==
    /\ resp # Idle
    /\ resp' = Idle
    /\ UNCHANGED <<users, tasks, task_owners, session, pending, now, toggleHist, reading, listQuery>>

(***************************************************************************)
(* controllers/auth_controller.py                                          *)
(***************************************************************************)
RegisterForm(username, email, password, confirm_password) ==
    [username |-> username, email |-> email, password |-> password,
     confirm_password |-> confirm_password]

\* GET /register
RegisterGet(c) ==
    LET req == Request(c, "register", "GET", Absent, Absent) IN
    /\ Ready(c)
    /\ resp' = Response(req,
                 IF is_authenticated(c) THEN redirect(url_for("task_list", None), None)
                 ELSE render_template("register.html", None, <<>>))
    /\ UNCHANGED <<users, tasks, task_owners, session, pending, now, toggleHist, reading, listQuery>>

\* request.form.get('username', '').strip()
FormUsername(form) == strip(form.username)

\* Mutant: the email is stripped but not lowercased.
FormEmailCaseKept(form) == strip(form.email)

\* request.form.get('email', '').strip().lower()
FormEmail(form) == lower(strip(form.email))

\* The outcome of register's validation and duplicate pre-checks on a form:
\* the flash category of the first failing check, or "ok".
RegisterPrecheck(form) ==
    LET username == FormUsername(form)
        email    == FormEmail(form)
        password == form.password
    IN  IF username = <<>> \/ email = <<>> \/ password = <<>> THEN "required"
        ELSE IF password # form.confirm_password THEN "mismatch"
        ELSE IF Len(password) < 6 THEN "too_short"
        ELSE IF \E u \in users : u.username = username THEN "dup_username"
        ELSE IF \E u \in users : u.email = email THEN "dup_email"
        ELSE "ok"

\* POST /register up to and including the duplicate pre-checks (lines 14-41)
RegisterCheck(c, form) ==
    LET req == Request(c, "register", "POST", Absent, Some(form))
        verdict == RegisterPrecheck(form)
    IN
    /\ Ready(c)
    /\ IF is_authenticated(c)
       THEN /\ resp' = Response(req, redirect(url_for("task_list", None), None))
            /\ UNCHANGED pending
       ELSE IF verdict # "ok"
       THEN /\ resp' = Response(req, render_template("register.html", verdict, <<>>))
            /\ UNCHANGED pending
       ELSE /\ pending' = [pending EXCEPT ![c] =
                              Some([form |-> form,
                                    username |-> FormUsername(form),
                                    email |-> FormEmail(form),
                                    password |-> form.password])]
            /\ UNCHANGED resp
    /\ UNCHANGED <<users, tasks, task_owners, session, now, toggleHist, reading, listQuery>>

\* Mutant: the columns are declared without unique=True.
NoUniqueConstraint(row) == FALSE

\* The unique constraints of table users (models/user.py)
UsersUniqueViolation(row) ==
    \E u \in users : u.username = row.username \/ u.email = row.email

\* The handling of a constraint violation raised by register's commit.
RegisterIntegrityError(row) == internal_error

\* POST /register from the insert on (lines 43-50)
RegisterInsert(c, salt) ==
    LET p   == The(pending[c])
        req == Request(c, "register", "POST", Absent, Some(p.form))
        row == [id |-> SetMax({u.id : u \in users}) + 1,
                username |-> p.username, email |-> p.email,
                password_hash |-> generate_password_hash(p.password, salt)]
    IN
    /\ resp = Idle
    /\ pending[c] # Absent
    /\ pending' = [pending EXCEPT ![c] = Absent]
    /\ IF UsersUniqueViolation(row)
       THEN /\ resp' = Response(req, RegisterIntegrityError(row))
            /\ UNCHANGED <<users, session>>
       ELSE /\ users' = users \cup {row}
            /\ session' = [session EXCEPT ![c] = Some(row.id)]
            /\ resp' = Response(req, redirect(url_for("task_list", None), "registered"))
    /\ UNCHANGED <<tasks, task_owners, now, toggleHist, reading, listQuery>>

LoginForm(username, password) == [username |-> username, password |-> password]

\* GET /login
LoginGet(c) ==
    LET req == Request(c, "login", "GET", Absent, Absent) IN
    /\ Ready(c)
    /\ resp' = Response(req,
                 IF is_authenticated(c) THEN redirect(url_for("task_list", None), None)
                 ELSE render_template("login.html", None, <<>>))
    /\ UNCHANGED <<users, tasks, task_owners, session, pending, now, toggleHist, reading, listQuery>>

\* POST /login?next=next_url
Login(c, form, next_url) ==
    LET req == Request(c, "login", "POST", Absent, Some([form |-> form, next |-> next_url]))
        username == FormUsername(form)
        found == {u \in users : u.username = username}
    IN
    /\ Ready(c)
    /\ IF is_authenticated(c)
       THEN /\ resp' = Response(req, redirect(url_for("task_list", None), None))
            /\ UNCHANGED session
       ELSE IF found = {} \/ \A u \in found : ~check_password(u, form.password)
       THEN /\ resp' = Response(req, render_template("login.html", "invalid_login", <<>>))
            /\ UNCHANGED session
       ELSE /\ session' = [session EXCEPT ![c] = Some(The(found).id)]
            /\ resp' = Response(req,
                         redirect(IF next_url # NoPath THEN next_url
                                  ELSE url_for("task_list", None), "logged_in"))
    /\ UNCHANGED <<users, tasks, task_owners, pending, now, toggleHist, reading, listQuery>>

\* Mutant: logout_user leaves the session as it is.
LogoutUserKept(sess, c) == sess

\* flask_login.logout_user(): the browser's session loses its user
logout_user(sess, c) == [sess EXCEPT ![c] = Absent]

\* GET /logout
Logout(c) ==
    LET req == Request(c, "logout", "GET", Absent, Absent) IN
    /\ Ready(c)
    /\ session' = logout_user(session, c)
    /\ resp' = [Response(req, redirect(url_for("login", None), "logged_out"))
                  EXCEPT !.prior = session[c]]
    /\ UNCHANGED <<users, tasks, task_owners, pending, now, toggleHist, reading, listQuery>>

(***************************************************************************)
(* Dates: datetime values are <<year, month, day, hour, minute>>.          *)
(***************************************************************************)
Digits == {"0", "1", "2", "3", "4", "5", "6", "7", "8", "9"}

DigitVal(ch) ==
    CASE ch = "0" -> 0 [] ch = "1" -> 1 [] ch = "2" -> 2 [] ch = "3" -> 3
      [] ch = "4" -> 4 [] ch = "5" -> 5 [] ch = "6" -> 6 [] ch = "7" -> 7
      [] ch = "8" -> 8 [] ch = "9" -> 9

IsDigits(s) == \A i \in DOMAIN s : s[i] \in Digits

RECURSIVE NumVal(_)
NumVal(s) ==
    IF s = <<>> THEN 0
    ELSE NumVal(SubSeq(s, 1, Len(s) - 1)) * 10 + DigitVal(s[Len(s)])

\* The first index >= from at which ch occurs in s, or Len(s) + 1.
IndexOf(s, ch, from) ==
    IF \E i \in from..Len(s) : s[i] = ch
    THEN CHOOSE i \in from..Len(s) : s[i] = ch /\ \A j \in from..(i - 1) : s[j] # ch
    ELSE Len(s) + 1

IsLeap(y) == (y % 4 = 0 /\ y % 100 # 0) \/ y % 400 = 0

DaysInMonth(y, m) ==
    IF m = 2 THEN (IF IsLeap(y) THEN 29 ELSE 28)
    ELSE IF m \in {4, 6, 9, 11} THEN 30 ELSE 31

\* The directives of '%Y-%m-%dT%H:%M' as the patterns strptime compiles them to.
Match_Y(f) == Len(f) = 4 /\ IsDigits(f)
Match_m(f) == /\ IsDigits(f)
              /\ \/ Len(f) = 2 /\ NumVal(f) \in 1..12
                 \/ Len(f) = 1 /\ NumVal(f) \in 1..9
Match_d(f) == \/ Len(f) = 2 /\ IsDigits(f) /\ NumVal(f) \in 1..31
              \/ Len(f) = 1 /\ IsDigits(f) /\ NumVal(f) \in 1..9
              \/ Len(f) = 2 /\ f[1] = " " /\ f[2] \in Digits \ {"0"}
Match_H(f) == /\ IsDigits(f)
              /\ \/ Len(f) = 2 /\ NumVal(f) \in 0..23
                 \/ Len(f) = 1
Match_M(f) == /\ IsDigits(f)
              /\ \/ Len(f) = 2 /\ NumVal(f) \in 0..59
                 \/ Len(f) = 1

\* datetime.strptime(raw, '%Y-%m-%dT%H:%M'): Some(datetime), or Absent for ValueError
strptime(raw) ==
    LET i1 == IndexOf(raw, "-", 1)
        i2 == IndexOf(raw, "-", i1 + 1)
        i3 == IndexOf(raw, "T", i2 + 1)
        i4 == IndexOf(raw, ":", i3 + 1)
        fY == SubSeq(raw, 1, i1 - 1)
        fm == SubSeq(raw, i1 + 1, i2 - 1)
        fd == SubSeq(raw, i2 + 1, i3 - 1)
        fH == SubSeq(raw, i3 + 1, i4 - 1)
        fM == SubSeq(raw, i4 + 1, Len(raw))
        day == IF fd # <<>> /\ fd[1] = " " THEN NumVal(Tail(fd)) ELSE NumVal(fd)
    IN  IF /\ i4 <= Len(raw)
           /\ Match_Y(fY) /\ Match_m(fm) /\ Match_d(fd) /\ Match_H(fH) /\ Match_M(fM)
           /\ NumVal(fY) >= 1
           /\ day <= DaysInMonth(NumVal(fY), NumVal(fm))
        THEN Some(<<NumVal(fY), NumVal(fm), day, NumVal(fH), NumVal(fM)>>)
        ELSE Absent

\* The instants the clock runs through.
StartTime == <<2025, 1, 1, 10, 0>>
LastTime == <<2025, 1, 1, 10, 1>>

\* a < b on datetimes
DtLess(a, b) ==
    \E i \in 1..5 : a[i] < b[i] /\ \A j \in 1..(i - 1) : a[j] = b[j]

(***************************************************************************)
(* models/task.py (the Task model used by the controller)                  *)
(***************************************************************************)
\* Task(title=..., description=..., due_date=...): a pending task created now
Task(id, title, description, due_date) ==
    [id |-> id, title |-> title, description |-> description,
     due_date |-> due_date, completed |-> FALSE, created_at |-> now]

\* Task.mark_completed / Task.mark_pending: idempotent setters of the flag
mark_completed(task) == [task EXCEPT !.completed = TRUE]
mark_pending(task) == [task EXCEPT !.completed = FALSE]

\* Task.delete: removes the task row and, with it, its ownership link
Task_delete(task) ==
    [tasks |-> tasks \ {task},
     task_owners |-> {l \in task_owners : l.task_id # task.id}]

\* TaskOwner(user_id=..., task_id=...)
TaskOwner(user_id, task_id) ==
    [id |-> SetMax({l.id : l \in task_owners}) + 1, user_id |-> user_id, task_id |-> task_id]

(***************************************************************************)
(* controllers/task_controller.py                                          *)
(***************************************************************************)
MaxTitleLen == 200
MaxDescriptionLen == 1000

\* Mutant: the query forgets the filter on the current user.
UnscopedTasksQuery(uid) ==
    {t \in tasks : \E l \in task_owners : l.task_id = t.id}

\* _user_tasks_query(): tasks joined to task_owners on the current user's id
_user_tasks_query(uid) ==
    {t \in tasks : \E l \in task_owners : l.task_id = t.id /\ l.user_id = uid}

\* Mutant: the lookup is by task id alone, without the ownership join.
GetAnyTask(uid, task_id) == {t \in tasks : t.id = task_id}

\* _get_user_task(task_id): the rows first_or_404 chooses from (none: 404)
_get_user_task(uid, task_id) ==
    {t \in _user_tasks_query(uid) : t.id = task_id}

TaskForm(title, description, due_date, completed) ==
    [title |-> title, description |-> description, due_date |-> due_date,
     completed |-> completed]

\* request.form.get('completed') == 'on'
FormCompleted(form) == form.completed = Some("on")

\* Mutant: the description is measured before the title.
ValidateTaskDescriptionFirst(form) ==
    LET title == strip(form.title)
        description == strip(form.description)
        due_date_raw == strip(form.due_date)
    IN  IF title = <<>> THEN "title_required"
        ELSE IF Len(description) > MaxDescriptionLen THEN "description_too_long"
        ELSE IF Len(title) > MaxTitleLen THEN "title_too_long"
        ELSE IF due_date_raw # <<>> /\ strptime(due_date_raw) = Absent THEN "due_date_format"
        ELSE "ok"

\* Mutant: the due date is not checked.
ValidateTaskNoDateCheck(form) ==
    LET title == strip(form.title)
        description == strip(form.description)
    IN  IF title = <<>> THEN "title_required"
        ELSE IF Len(title) > MaxTitleLen THEN "title_too_long"
        ELSE IF Len(description) > MaxDescriptionLen THEN "description_too_long"
        ELSE "ok"

\* The validation shared by task_create and task_edit: the flash of the first
\* failing check, or "ok".
ValidateTask(form) ==
    LET title == strip(form.title)
        description == strip(form.description)
        due_date_raw == strip(form.due_date)
    IN  IF title = <<>> THEN "title_required"
        ELSE IF Len(title) > MaxTitleLen THEN "title_too_long"
        ELSE IF Len(description) > MaxDescriptionLen THEN "description_too_long"
        ELSE IF due_date_raw # <<>> /\ strptime(due_date_raw) = Absent THEN "due_date_format"
        ELSE "ok"

\* description if description else None
FormDescription(form) ==
    IF strip(form.description) # <<>> THEN Some(strip(form.description)) ELSE Absent

FormDueDate(form) ==
    IF strip(form.due_date) # <<>> THEN strptime(strip(form.due_date)) ELSE Absent

\* The unique constraint on task_owners.task_id (models/user.py)
TaskOwnersUniqueViolation(link) == \E l \in task_owners : l.task_id = link.task_id

\* Mutant: the flushed rows survive the failed request.
KeepFlushed(committed, flushed) == flushed

\* What the session keeps when a request fails after db.session.flush():
\* the 500 handler rolls the transaction back to the committed rows.
Rollback(committed, flushed) == committed

\* GET /
Index(c) ==
    /\ Ready(c)
    /\ resp' = Response(Request(c, "index", "GET", Absent, Absent),
                        redirect(url_for("task_list", None), None))
    /\ UNCHANGED <<users, tasks, task_owners, session, pending, now, toggleHist, reading, listQuery>>

\* GET /api/tasks
ApiTasks(c) ==
    /\ Ready(c)
    /\ resp' = Response(Request(c, "api_tasks", "GET", Absent, Absent),
                        Out(200, NoPath, NoPath, None,
                            [template |-> "json", data |-> <<>>]))
    /\ UNCHANGED <<users, tasks, task_owners, session, pending, now, toggleHist, reading, listQuery>>

\* Mutant: the task keeps the model's default flag (line 150 is missing).
CreatedTaskDefaultFlag(id, form) ==
    Task(id, strip(form.title), FormDescription(form), FormDueDate(form))

\* The row task_create adds for a valid form (lines 145-150)
CreatedTask(id, form) ==
    [Task(id, strip(form.title), FormDescription(form), FormDueDate(form))
       EXCEPT !.completed = FormCompleted(form)]

\* GET /tasks/new
TaskCreateGet(c) ==
    LET req == Request(c, "task_create", "GET", Absent, Absent) IN
    /\ Ready(c)
    /\ resp' = Response(req,
                 IF ~is_authenticated(c) THEN unauthorized(req)
                 ELSE render_template("task_form.html", None, <<>>))
    /\ UNCHANGED <<users, tasks, task_owners, session, pending, now, toggleHist, reading, listQuery>>

\* POST /tasks/new; link_fails: the store rejects the insert of the ownership link
TaskCreate(c, form, link_fails) ==
    LET req == Request(c, "task_create", "POST", Absent, Some(form))
        verdict == ValidateTask(form)
        new_id == SetMax({t.id : t \in tasks}) + 1
        task == CreatedTask(new_id, form)
        flushed == tasks \cup {task}
        link == TaskOwner(current_user_id(c), task.id)
    IN
    /\ Ready(c)
    /\ IF ~is_authenticated(c)
       THEN /\ resp' = Response(req, unauthorized(req))
            /\ UNCHANGED <<tasks, task_owners, toggleHist>>
       ELSE IF verdict # "ok"
       THEN /\ resp' = Response(req, render_template("task_form.html", verdict, <<>>))
            /\ UNCHANGED <<tasks, task_owners, toggleHist>>
       ELSE /\ new_id <= MaxTasks
            /\ IF link_fails \/ TaskOwnersUniqueViolation(link)
               THEN /\ tasks' = Rollback(tasks, flushed)
                    /\ UNCHANGED <<task_owners, toggleHist>>
                    /\ resp' = Response(req, internal_error)
               ELSE /\ tasks' = flushed
                    /\ task_owners' = task_owners \cup {link}
                    /\ toggleHist' = [toggleHist EXCEPT ![new_id] = Absent]
                    /\ resp' = Response(req, redirect(url_for("task_list", None), "task_created"))
    /\ UNCHANGED <<users, session, pending, now, reading, listQuery>>

\* GET /tasks/<task_id>
TaskDetail(c, task_id) ==
    LET req == Request(c, "task_detail", "GET", Some(task_id), Absent) IN
    /\ Ready(c)
    /\ resp' = Response(req,
                 IF ~is_authenticated(c) THEN unauthorized(req)
                 ELSE redirect(url_for("task_edit", task_id), None))
    /\ UNCHANGED <<users, tasks, task_owners, session, pending, now, toggleHist, reading, listQuery>>

\* GET /tasks/<task_id>/edit
TaskEditGet(c, task_id) ==
    LET req == Request(c, "task_edit", "GET", Some(task_id), Absent) IN
    /\ Ready(c)
    /\ resp' = Response(req,
                 IF ~is_authenticated(c) THEN unauthorized(req)
                 ELSE IF _get_user_task(current_user_id(c), task_id) = {} THEN not_found_error
                 ELSE render_template("task_form.html", None,
                        <<The(_get_user_task(current_user_id(c), task_id))>>))
    /\ UNCHANGED <<users, tasks, task_owners, session, pending, now, toggleHist, reading, listQuery>>

\* Mutant: an edit marks the task completed whatever the form says.
EditedTaskForcedCompleted(task, form) ==
    [task EXCEPT !.title = strip(form.title),
                 !.description = FormDescription(form),
                 !.due_date = FormDueDate(form),
                 !.completed = TRUE]

\* The row task_edit commits for a valid form (lines 220-223)
EditedTask(task, form) ==
    [task EXCEPT !.title = strip(form.title),
                 !.description = FormDescription(form),
                 !.due_date = FormDueDate(form),
                 !.completed = FormCompleted(form)]

\* POST /tasks/<task_id>/edit
TaskEdit(c, task_id, form) ==
    LET req == Request(c, "task_edit", "POST", Some(task_id), Some(form))
        verdict == ValidateTask(form)
    IN
    /\ Ready(c)
    /\ IF ~is_authenticated(c)
       THEN /\ resp' = Response(req, unauthorized(req))
            /\ UNCHANGED <<tasks, toggleHist>>
       ELSE IF _get_user_task(current_user_id(c), task_id) = {}
       THEN /\ resp' = Response(req, not_found_error)
            /\ UNCHANGED <<tasks, toggleHist>>
       ELSE LET task == The(_get_user_task(current_user_id(c), task_id)) IN
            IF verdict # "ok"
            THEN /\ resp' = Response(req, render_template("task_form.html", verdict, <<task>>))
                 /\ UNCHANGED <<tasks, toggleHist>>
            ELSE /\ tasks' = (tasks \ {task}) \cup {EditedTask(task, form)}
                 /\ toggleHist' = [toggleHist EXCEPT ![task_id] = Absent]
                 /\ resp' = Response(req, redirect(url_for("task_list", None), "task_updated"))
    /\ UNCHANGED <<users, task_owners, session, pending, now, reading, listQuery>>

\* POST /tasks/<task_id>/delete
TaskDelete(c, task_id) ==
    LET req == Request(c, "task_delete", "POST", Some(task_id), Absent) IN
    /\ Ready(c)
    /\ IF ~is_authenticated(c)
       THEN /\ resp' = Response(req, unauthorized(req))
            /\ UNCHANGED <<tasks, task_owners, toggleHist>>
       ELSE IF _get_user_task(current_user_id(c), task_id) = {}
       THEN /\ resp' = Response(req, not_found_error)
            /\ UNCHANGED <<tasks, task_owners, toggleHist>>
       ELSE LET task == The(_get_user_task(current_user_id(c), task_id)) IN
            /\ tasks' = Task_delete(task).tasks
            /\ task_owners' = Task_delete(task).task_owners
            /\ toggleHist' = [toggleHist EXCEPT ![task_id] = Absent]
            /\ resp' = Response(req, redirect(url_for("task_list", None), "task_deleted"))
    /\ UNCHANGED <<users, session, pending, now, reading, listQuery>>

\* Mutant: the toggle marks the task completed whatever its flag.
AlwaysMarkCompleted(task) == mark_completed(task)

\* The row task_toggle commits (lines 266-271)
ToggledTask(task) ==
    IF task.completed THEN mark_pending(task) ELSE mark_completed(task)

\* POST /tasks/<task_id>/toggle
TaskToggle(c, task_id) ==
    LET req == Request(c, "task_toggle", "POST", Some(task_id), Absent) IN
    /\ Ready(c)
    /\ IF ~is_authenticated(c)
       THEN /\ resp' = Response(req, unauthorized(req))
            /\ UNCHANGED <<tasks, toggleHist>>
       ELSE IF _get_user_task(current_user_id(c), task_id) = {}
       THEN /\ resp' = Response(req, not_found_error)
            /\ UNCHANGED <<tasks, toggleHist>>
       ELSE LET task == The(_get_user_task(current_user_id(c), task_id)) IN
            /\ tasks' = (tasks \ {task}) \cup {ToggledTask(task)}
            /\ toggleHist' = [toggleHist EXCEPT ![task_id] = Some(task.completed)]
            /\ resp' = [Response(req,
                            redirect(url_for("task_list", None),
                                     IF task.completed THEN "marked_pending"
                                     ELSE "marked_completed"))
                           EXCEPT !.prior = toggleHist[task_id]]
    /\ UNCHANGED <<users, task_owners, session, pending, now, reading, listQuery>>

\* POST /tasks/<task_id>/toggle as the server runs it when requests overlap:
\* first the row is loaded (line 264) ...
ToggleRead(c, task_id) ==
    LET req == Request(c, "task_toggle", "POST", Some(task_id), Absent) IN
    /\ Ready(c)
    /\ IF ~is_authenticated(c)
       THEN /\ resp' = Response(req, unauthorized(req))
            /\ UNCHANGED reading
       ELSE IF _get_user_task(current_user_id(c), task_id) = {}
       THEN /\ resp' = Response(req, not_found_error)
            /\ UNCHANGED reading
       ELSE /\ reading' = [reading EXCEPT ![c] =
                              Some(The(_get_user_task(current_user_id(c), task_id)))]
            /\ UNCHANGED resp
    /\ UNCHANGED <<users, tasks, task_owners, session, pending, now, toggleHist, listQuery>>

\* ... then the negation of the flag that was loaded is written to the row
\* with that id and committed (lines 266-275).
ToggleCommit(c) ==
    LET task == The(reading[c])
        req == Request(c, "task_toggle", "POST", Some(task.id), Absent)
        stored == {t \in tasks : t.id = task.id}
    IN
    /\ resp = Idle
    /\ reading[c] # Absent
    /\ reading' = [reading EXCEPT ![c] = Absent]
    /\ IF stored = {}
       THEN /\ resp' = Response(req, internal_error)
            /\ UNCHANGED <<tasks, toggleHist>>
       ELSE /\ tasks' = (tasks \ stored) \cup
                          {[t EXCEPT !.completed = ToggledTask(task).completed] :
                             t \in stored}
            /\ toggleHist' = [toggleHist EXCEPT ![task.id] = Some(The(stored).completed)]
            /\ resp' = [Response(req,
                            redirect(url_for("task_list", None),
                                     IF task.completed THEN "marked_pending"
                                     ELSE "marked_completed"))
                           EXCEPT !.prior = toggleHist[task.id]]
    /\ UNCHANGED <<users, task_owners, session, pending, now, listQuery>>

(***************************************************************************)
(* task_list: filter, sort and counts                                      *)
(***************************************************************************)
\* Mutant: the filter argument is used as given.
FilterTypeAsGiven(arg) == IF arg = Absent THEN "all" ELSE The(arg)

\* request.args.get(name, default) followed by the coercion of unknown values
FilterType(arg) ==
    LET v == IF arg = Absent THEN "all" ELSE The(arg)
    IN  IF v \notin {"all", "pending", "completed", "overdue"} THEN "all" ELSE v

SortBy(arg) ==
    LET v == IF arg = Absent THEN "created" ELSE The(arg)
    IN  IF v \notin {"created", "date", "title"} THEN "created" ELSE v

\* Mutant: a task due at this very instant counts as overdue.
FilteredDueNow(rows, filter_type) ==
    CASE filter_type = "pending"   -> {t \in rows : ~t.completed}
      [] filter_type = "completed" -> {t \in rows : t.completed}
      [] filter_type = "overdue"   ->
            {t \in rows : ~t.completed /\ t.due_date # Absent
                          /\ ~DtLess(now, The(t.due_date))}
      [] OTHER -> rows

\* The filter clause of task_list (lines 68-77)
Filtered(rows, filter_type) ==
    CASE filter_type = "pending"   -> {t \in rows : ~t.completed}
      [] filter_type = "completed" -> {t \in rows : t.completed}
      [] filter_type = "overdue"   ->
            {t \in rows : ~t.completed /\ t.due_date # Absent
                          /\ DtLess(The(t.due_date), now)}
      [] OTHER -> rows

\* Code points of the characters used in titles (binary collation).
CharCode(ch) ==
    CASE ch = " " -> 32 [] ch = "A" -> 65 [] ch = "B" -> 66 [] ch = "X" -> 88
      [] ch = "a" -> 97 [] ch = "b" -> 98 [] ch = "x" -> 120 [] ch = "y" -> 121
      [] OTHER -> 63

\* a < b on strings
StrLess(a, b) ==
    \/ \E i \in 1..Len(a) : /\ i <= Len(b)
                            /\ CharCode(a[i]) < CharCode(b[i])
                            /\ \A j \in 1..(i - 1) : a[j] = b[j]
    \/ Len(a) < Len(b) /\ \A j \in 1..Len(a) : a[j] = b[j]

\* Mutant: the date order without the CASE key, where NULL sorts first.
BeforeNullsFirst(sort_by, a, b) ==
    CASE sort_by = "title" -> StrLess(a.title, b.title)
      [] sort_by = "date"  ->
            \/ a.due_date = Absent /\ b.due_date # Absent
            \/ /\ a.due_date # Absent /\ b.due_date # Absent
               /\ DtLess(The(a.due_date), The(b.due_date))
      [] OTHER -> DtLess(b.created_at, a.created_at)

\* Row a must come before row b under the ORDER BY of sort_by (lines 79-87)
Before(sort_by, a, b) ==
    CASE sort_by = "title" -> StrLess(a.title, b.title)
      [] sort_by = "date"  ->
            \/ a.due_date # Absent /\ b.due_date = Absent
            \/ /\ a.due_date # Absent /\ b.due_date # Absent
               /\ DtLess(The(a.due_date), The(b.due_date))
      [] OTHER -> DtLess(b.created_at, a.created_at)

\* query.all(): every order of the rows the ORDER BY allows (ties in any order)
QueryAll(rows, sort_by) ==
    {q \in [1..Cardinality(rows) -> rows] :
        /\ \A i, j \in DOMAIN q : i # j => q[i] # q[j]
        /\ \A i, j \in DOMAIN q : i < j => ~Before(sort_by, q[j], q[i])}

\* The template context of task_list (lines 96-103)
ListContext(listed, filter_type, sort_by, total, pending_n, completed_n) ==
    [tasks |-> listed, filter_type |-> filter_type, sort_by |-> sort_by,
     total_tasks |-> total, pending_count |-> pending_n, completed_count |-> completed_n]

\* Mutant: the counts are taken from the filtered query of the listing.
CountBaseFiltered(uid, filter_type) == Filtered(_user_tasks_query(uid), filter_type)

\* The query the three counts start from: a fresh _user_tasks_query() (lines 91-93)
CountBase(uid, filter_type) == _user_tasks_query(uid)

\* The responses task_list can give user uid for these query arguments.
ListOutcomes(uid, filter_arg, sort_arg) ==
    LET filter_type == FilterType(filter_arg)
        sort_by == SortBy(sort_arg)
        counted == CountBase(uid, filter_type)
    IN  { render_template("task_list.html", None,
             <<ListContext(listed, filter_type, sort_by,
                           Cardinality(counted),
                           Cardinality({t \in counted : ~t.completed}),
                           Cardinality({t \in counted : t.completed}))>>) :
          listed \in QueryAll(Filtered(_user_tasks_query(uid), filter_type), sort_by) }

\* GET /tasks?filter=..&sort=..
TaskList(c, filter_arg, sort_arg) ==
    LET req == Request(c, "task_list", "GET", Absent,
                       Some([filter |-> filter_arg, sort |-> sort_arg]))
    IN
    /\ Ready(c)
    /\ IF ~is_authenticated(c)
       THEN resp' = Response(req, unauthorized(req))
       ELSE \E out \in ListOutcomes(current_user_id(c), filter_arg, sort_arg) :
              resp' = Response(req, out)
    /\ UNCHANGED <<users, tasks, task_owners, session, pending, now, toggleHist, reading, listQuery>>

\* GET /tasks as the server runs it when requests overlap: four queries, each
\* reading the store as it is when the query runs. First query.all()
\* (lines 57-89) ...
ListQueryTasks(c, filter_arg, sort_arg) ==
    LET req == Request(c, "task_list", "GET", Absent,
                       Some([filter |-> filter_arg, sort |-> sort_arg]))
        uid == current_user_id(c)
    IN
    /\ Ready(c)
    /\ IF ~is_authenticated(c)
       THEN /\ resp' = Response(req, unauthorized(req))
            /\ UNCHANGED listQuery
       ELSE /\ \E listed \in QueryAll(Filtered(_user_tasks_query(uid), FilterType(filter_arg)),
                                      SortBy(sort_arg)) :
                 listQuery' = [listQuery EXCEPT ![c] =
                                 Some([req |-> req, tasks |-> listed,
                                       total_tasks |-> Absent, pending_count |-> Absent])]
            /\ UNCHANGED resp
    /\ UNCHANGED <<users, tasks, task_owners, session, pending, now, toggleHist, reading>>

\* ... then total_tasks = _user_tasks_query().count() (line 91) ...
ListCountTotal(c) ==
    /\ resp = Idle
    /\ listQuery[c] # Absent
    /\ The(listQuery[c]).total_tasks = Absent
    /\ listQuery' = [listQuery EXCEPT ![c] =
          Some([The(listQuery[c]) EXCEPT !.total_tasks =
                  Some(Cardinality(CountBase(current_user_id(c),
                          FilterType(The(The(listQuery[c]).req.form).filter))))])]
    /\ UNCHANGED <<users, tasks, task_owners, session, pending, now, resp, toggleHist,
                   reading>>

\* ... then pending_count (line 92) ...
ListCountPending(c) ==
    /\ resp = Idle
    /\ listQuery[c] # Absent
    /\ The(listQuery[c]).total_tasks # Absent
    /\ The(listQuery[c]).pending_count = Absent
    /\ listQuery' = [listQuery EXCEPT ![c] =
          Some([The(listQuery[c]) EXCEPT !.pending_count =
                  Some(Cardinality({t \in CountBase(current_user_id(c),
                                        FilterType(The(The(listQuery[c]).req.form).filter)) :
                                      ~t.completed}))])]
    /\ UNCHANGED <<users, tasks, task_owners, session, pending, now, resp, toggleHist,
                   reading>>

\* ... then completed_count and the page (lines 93-105).
ListCountCompleted(c) ==
    LET q == The(listQuery[c])
        args == The(q.req.form)
        counted == CountBase(current_user_id(c), FilterType(args.filter))
    IN
    /\ resp = Idle
    /\ listQuery[c] # Absent
    /\ q.pending_count # Absent
    /\ listQuery' = [listQuery EXCEPT ![c] = Absent]
    /\ resp' = Response(q.req,
                 render_template("task_list.html", None,
                    <<ListContext(q.tasks, FilterType(args.filter), SortBy(args.sort),
                                  The(q.total_tasks), The(q.pending_count),
                                  Cardinality({t \in counted : t.completed}))>>))
    /\ UNCHANGED <<users, tasks, task_owners, session, pending, now, toggleHist, reading>>

\* A minute passes on the server's clock, up to the last instant looked at.
Tick ==
    /\ resp = Idle
    /\ DtLess(now, LastTime)
    /\ now' = [now EXCEPT ![5] = @ + 1]
    /\ UNCHANGED <<users, tasks, task_owners, session, pending, resp, toggleHist, reading, listQuery>>

(***************************************************************************)
(* The application: requests of two browsers against one store             *)
(***************************************************************************)
\* create_app(): empty tables, no session
Init ==
    /\ users = {}
    /\ tasks = {}
    /\ task_owners = {}
    /\ session = [c \in Clients |-> Absent]
    /\ pending = [c \in Clients |-> Absent]
    /\ now = StartTime
    /\ resp = Idle
    /\ toggleHist = [i \in TaskIds |-> Absent]
    /\ reading = [c \in Clients |-> Absent]
    /\ listQuery = [c \in Clients |-> Absent]

\* Forms submitted to /register, /login and the task forms
RegForms ==
    { RegisterForm(Str_sp_a_sp, Str_AX, Pw_good, Pw_good),
      RegisterForm(Str_b, Str_bx, Pw_good, Pw_good) }

LoginForms ==
    { LoginForm(Str_a, Pw_good), LoginForm(Str_b, Pw_good) }

NextUrls == {NoPath}

Title_x == <<" ", "x">>

TaskForms ==
    { TaskForm(Title_x, Str_empty, Str_empty, Absent),
      TaskForm(Title_x, Str_empty, Str_empty, Some("on")),
      TaskForm(Str_blank, Str_empty, Str_empty, Some("on")) }

FilterArgs == {Absent, Some("completed")}
SortArgs == {Absent}

AuthRequests(c, regForms, loginForms, nextUrls) ==
    \/ RegisterGet(c)
    \/ \E form \in regForms : RegisterCheck(c, form)
    \/ \E salt \in Salts : RegisterInsert(c, salt)
    \/ LoginGet(c)
    \/ \E form \in loginForms, next_url \in nextUrls : Login(c, form, next_url)
    \/ Logout(c)

TaskRequests(c) ==
    \/ Index(c)
    \/ ApiTasks(c)
    \/ \E filter_arg \in FilterArgs, sort_arg \in SortArgs : TaskList(c, filter_arg, sort_arg)
    \/ TaskCreateGet(c)
    \/ \E form \in TaskForms, link_fails \in BOOLEAN : TaskCreate(c, form, link_fails)
    \/ \E task_id \in TaskIds : TaskDetail(c, task_id)
    \/ \E task_id \in TaskIds : TaskEditGet(c, task_id)
    \/ \E task_id \in TaskIds, form \in TaskForms : TaskEdit(c, task_id, form)
    \/ \E task_id \in TaskIds : TaskDelete(c, task_id)
    \/ \E task_id \in TaskIds : TaskToggle(c, task_id)

Next ==
    \/ \E c \in Clients :
          \/ AuthRequests(c, RegForms, LoginForms, NextUrls)
          \/ TaskRequests(c)
    \/ Deliver

Spec == Init /\ [][Next]_vars

(***************************************************************************)
(* Registration and login alone, with forms that collide                   *)
(***************************************************************************)
AuthRegForms ==
    { RegisterForm(Str_a, Str_ax, Pw_good, Pw_good),
      RegisterForm(Str_sp_a_sp, Str_bx, Pw_good, Pw_good),
      RegisterForm(Str_A, Str_AX, Pw_good, Pw_good),
      RegisterForm(Str_b, Str_bx, Pw_good, Pw_good),
      RegisterForm(Str_b, Str_cx, Pw_good, Pw_other),
      RegisterForm(Str_c, Str_cx, Pw_short, Pw_short),
      RegisterForm(Str_c, Str_cx, Pw_blank, Pw_blank),
      RegisterForm(Str_blank, Str_cx, Pw_good, Pw_good) }

AuthLoginForms ==
    { LoginForm(Str_a, Pw_good), LoginForm(Str_sp_a_sp, Pw_good),
      LoginForm(Str_a, Pw_other),
      LoginForm(Str_b, Pw_good), LoginForm(Str_c, Pw_good) }

AuthNextUrls == {NoPath, url_for("task_create", None)}

NextAuth ==
    \/ \E c \in Clients : AuthRequests(c, AuthRegForms, AuthLoginForms, AuthNextUrls)
    \/ Deliver

SpecAuth == Init /\ [][NextAuth]_vars

(***************************************************************************)
(* The list page alone, over stores with differing dates, flags and owners *)
(***************************************************************************)
\* Two registered users, as RegisterInsert stores them.
StoredUsers ==
    { [id |-> 1, username |-> Str_a, email |-> Str_ax,
       password_hash |-> generate_password_hash(Pw_good, "s1")],
      [id |-> 2, username |-> Str_b, email |-> Str_bx,
       password_hash |-> generate_password_hash(Pw_good, "s1")] }

\* Instants at which the stored tasks were created, and the due dates given.
CreatedTimes == {<<2025, 1, 1, 9, 0>>, <<2025, 1, 1, 9, 30>>}
DueDates == {Absent, Some(StartTime), Some(LastTime)}
RowTitle(id) == IF id % 2 = 1 THEN <<"y">> ELSE <<"x">>

\* The rows task_create can have stored with primary key id.
StoredRows(id) ==
    { [id |-> id, title |-> RowTitle(id), description |-> Absent,
       due_date |-> due, completed |-> done, created_at |-> created] :
        due \in DueDates, done \in BOOLEAN, created \in CreatedTimes }

\* Stores of k tasks created one after the other, each owned by one user.
StoredTasks ==
    UNION { { {row[i] : i \in 1..k} :
                row \in { r \in [1..k -> UNION {StoredRows(i) : i \in 1..k}] :
                            /\ \A i \in 1..k : r[i] \in StoredRows(i)
                            /\ \A i, j \in 1..k :
                                  i < j => ~DtLess(r[j].created_at, r[i].created_at) } } :
            k \in 0..MaxTasks }

\* The browser that looks at the list, logged in as user 1.
ListClient == "c1"

InitList ==
    /\ users = StoredUsers
    /\ tasks \in StoredTasks
    /\ \E owner \in [{t.id : t \in tasks} -> {u.id : u \in users}] :
          task_owners = { [id |-> i, user_id |-> owner[i], task_id |-> i] :
                            i \in DOMAIN owner }
    /\ session = [c \in Clients |-> IF c = ListClient THEN Some(1) ELSE Absent]
    /\ pending = [c \in Clients |-> Absent]
    /\ now = StartTime
    /\ resp = Idle
    /\ toggleHist = [i \in TaskIds |-> Absent]
    /\ reading = [c \in Clients |-> Absent]
    /\ listQuery = [c \in Clients |-> Absent]

ListFilterArgs ==
    {Absent, Some("all"), Some("pending"), Some("completed"), Some("overdue"),
     Some("late")}
ListSortArgs ==
    {Absent, Some("created"), Some("date"), Some("title"), Some("due")}

NextList ==
    \/ \E filter_arg \in ListFilterArgs, sort_arg \in ListSortArgs :
          TaskList(ListClient, filter_arg, sort_arg)
    \/ Tick
    \/ Deliver

SpecList == InitList /\ [][NextList]_vars

(***************************************************************************)
(* The task form alone, with titles, descriptions and dates at the limits  *)
(***************************************************************************)
Repeat(ch, n) == [i \in 1..n |-> ch]

Title_max == Repeat("x", MaxTitleLen)
Title_max_padded == <<" ">> \o Title_max \o <<" ">>
Title_over == Repeat("x", MaxTitleLen + 1)
Desc_max_padded == Repeat("d", MaxDescriptionLen) \o <<" ">>
Desc_over == Repeat("d", MaxDescriptionLen + 1)
Due_valid == <<"2", "0", "2", "5", "-", "0", "1", "-", "0", "1", "T", "1", "0", ":", "0", "0">>
Due_short_fields == <<"2", "0", "2", "5", "-", "1", "-", "1", "T", "9", ":", "5">>
Due_month_13 == <<"2", "0", "2", "5", "-", "1", "3", "-", "0", "1", "T", "1", "0", ":", "0", "0">>
Due_feb_30 == <<"2", "0", "2", "5", "-", "0", "2", "-", "3", "0", "T", "1", "0", ":", "0", "0">>
Due_no_time == <<"2", "0", "2", "5", "-", "0", "1", "-", "0", "1">>

\* Forms that pass, and forms that fail one check or several at once.
ValidationForms ==
    { TaskForm(Title_x, Str_empty, Str_empty, Absent),
      TaskForm(Title_max_padded, Desc_max_padded, Due_valid, Some("on")),
      TaskForm(Title_x, Str_blank, Due_short_fields, Absent),
      TaskForm(Str_blank, Str_empty, Due_valid, Some("on")),
      TaskForm(Str_empty, Desc_over, Due_month_13, Absent),
      TaskForm(Title_over, Str_empty, Str_empty, Some("on")),
      TaskForm(Title_over, Desc_over, Due_no_time, Absent),
      TaskForm(Title_x, Desc_over, Due_valid, Some("on")),
      TaskForm(Title_max, Desc_over, Due_feb_30, Absent),
      TaskForm(Title_x, Str_empty, Due_month_13, Some("on")),
      TaskForm(Title_x, Desc_max_padded, Due_feb_30, Absent),
      TaskForm(Title_max, Str_empty, Due_no_time, Absent) }

\* User 1, logged in on one browser, owns one stored task; user 2 has none.
InitForms ==
    /\ users = StoredUsers
    /\ tasks \in {{row} : row \in StoredRows(1)}
    /\ task_owners = {[id |-> 1, user_id |-> 1, task_id |-> 1]}
    /\ session = [c \in Clients |-> IF c = ListClient THEN Some(1) ELSE Absent]
    /\ pending = [c \in Clients |-> Absent]
    /\ now = StartTime
    /\ resp = Idle
    /\ toggleHist = [i \in TaskIds |-> Absent]
    /\ reading = [c \in Clients |-> Absent]
    /\ listQuery = [c \in Clients |-> Absent]

NextForms ==
    \/ \E form \in ValidationForms : TaskCreate(ListClient, form, FALSE)
    \/ \E task_id \in TaskIds, form \in ValidationForms : TaskEdit(ListClient, task_id, form)
    \/ Deliver

SpecForms == InitForms /\ [][NextForms]_vars

(***************************************************************************)
(* Toggle requests of one user from two browsers that overlap              *)
(***************************************************************************)
\* User 1 is logged in on both browsers and owns every stored task.
InitRace ==
    /\ users = StoredUsers
    /\ tasks \in { ts \in StoredTasks :
                      /\ {t.id : t \in ts} = TaskIds
                      /\ \A t \in ts : t.due_date = Absent
                      /\ \A t, t2 \in ts : t.created_at = t2.created_at }
    /\ task_owners = {[id |-> i, user_id |-> 1, task_id |-> i] : i \in TaskIds}
    /\ session = [c \in Clients |-> Some(1)]
    /\ pending = [c \in Clients |-> Absent]
    /\ now = StartTime
    /\ resp = Idle
    /\ toggleHist = [i \in TaskIds |-> Absent]
    /\ reading = [c \in Clients |-> Absent]
    /\ listQuery = [c \in Clients |-> Absent]

NextRace ==
    \/ \E c \in Clients, task_id \in TaskIds : ToggleRead(c, task_id)
    \/ \E c \in Clients : ToggleCommit(c)
    \/ Deliver

SpecRace == InitRace /\ [][NextRace]_vars

(***************************************************************************)
(* A list request that overlaps writes of the same user's other browser    *)
(***************************************************************************)
\* User 1 is logged in on both browsers and owns every stored task.
InitListRace ==
    /\ users = StoredUsers
    /\ tasks \in { ts \in StoredTasks :
                      /\ \A t \in ts : t.due_date = Absent
                      /\ \A t, t2 \in ts : t.created_at = t2.created_at }
    /\ task_owners = {[id |-> t.id, user_id |-> 1, task_id |-> t.id] : t \in tasks}
    /\ session = [c \in Clients |-> Some(1)]
    /\ pending = [c \in Clients |-> Absent]
    /\ now = StartTime
    /\ resp = Idle
    /\ toggleHist = [i \in TaskIds |-> Absent]
    /\ reading = [c \in Clients |-> Absent]
    /\ listQuery = [c \in Clients |-> Absent]

RaceFilterArgs == {Absent, Some("pending")}
RaceTaskForms == {TaskForm(Title_x, Str_empty, Str_empty, Absent)}

NextListRace ==
    \/ \E filter_arg \in RaceFilterArgs : ListQueryTasks(ListClient, filter_arg, Absent)
    \/ ListCountTotal(ListClient)
    \/ ListCountPending(ListClient)
    \/ ListCountCompleted(ListClient)
    \/ \E c \in Clients :
          \/ \E form \in RaceTaskForms : TaskCreate(c, form, FALSE)
          \/ \E task_id \in TaskIds : TaskDelete(c, task_id)
          \/ \E task_id \in TaskIds : TaskToggle(c, task_id)
    \/ Deliver

SpecListRace == InitListRace /\ [][NextListRace]_vars

(***************************************************************************)
(* Properties                                                              *)
(***************************************************************************)
\* The user a browser is logged in as owns task t.
OwnedBy(t, user) ==
    /\ user # Absent
    /\ \E l \in task_owners : l.task_id = t.id /\ l.user_id = The(user)

\* The step serves a request of one of these routes.
StepServes(routes) == resp' # Idle /\ resp'.req.route \in routes

StepUser == session[resp'.req.client]

\* The step leaves the three tables as they are.
StoreUnchanged == UNCHANGED <<users, tasks, task_owners>>

\* C1 (ownership isolation): whenever a list, edit, delete or toggle request is
\* served under a session, every task that session's user does not own is left
\* with its row and its ownership link unchanged and does not occur in the
\* tasks returned by a list.
C1_OwnershipIsolation ==
    [][ StepServes({"task_list", "task_edit", "task_delete", "task_toggle"}) =>
          \A t \in tasks :
             ~OwnedBy(t, StepUser) =>
                /\ t \in tasks'
                /\ {l \in task_owners' : l.task_id = t.id}
                     = {l \in task_owners : l.task_id = t.id}
                /\ resp'.req.route = "task_list" /\ resp'.out.status = 200 =>
                     \A i \in DOMAIN resp'.out.body.data[1].tasks :
                        resp'.out.body.data[1].tasks[i].id # t.id
      ]_vars

\* C1 witness: a user lists their own task while another user's task is stored.
C1_Witness ==
    /\ resp.req.route = "task_list"
    /\ resp.out.status = 200
    /\ Len(resp.out.body.data[1].tasks) = 1
    /\ \E t \in tasks : ~OwnedBy(t, session[resp.req.client])

\* C2 (ownership links): in every committed state each task has exactly one
\* ownership link, each link refers to a stored task and a stored user, and no
\* task id occurs in two links.
C2_OneLinkPerTask ==
    /\ \A t \in tasks : Cardinality({l \in task_owners : l.task_id = t.id}) = 1
    /\ \A l \in task_owners :
          /\ \E t \in tasks : t.id = l.task_id
          /\ \E u \in users : u.id = l.user_id
    /\ \A l1, l2 \in task_owners : l1.task_id = l2.task_id => l1 = l2

\* C2 witness: a task_create whose link insert failed, with another task stored.
C2_Witness ==
    /\ resp.req.route = "task_create"
    /\ resp.out = internal_error
    /\ tasks # {}

\* C3 (creation): a task_create that passes validation and commits adds exactly
\* one task, linked to exactly the requesting session's user, whose completed
\* flag is true exactly when the form field completed was 'on'.
C3_CreateOwnerAndFlag ==
    [][ (StepServes({"task_create"}) /\ resp'.req.method = "POST"
           /\ resp'.out.status = 302 /\ resp'.out.location = url_for("task_list", None)) =>
          /\ Cardinality(tasks' \ tasks) = 1
          /\ \A t \in tasks' \ tasks :
                /\ {l.user_id : l \in {k \in task_owners' : k.task_id = t.id}}
                     = StepUser
                /\ t.completed = (The(resp'.req.form).completed = Some("on"))
      ]_vars

\* C3 witness: a task created with the completed box checked.
C3_Witness ==
    /\ resp.req.route = "task_create"
    /\ resp.out.status = 302
    /\ resp.out.location = url_for("task_list", None)
    /\ The(resp.req.form).completed = Some("on")
    /\ \E t \in tasks : t.completed /\ OwnedBy(t, session[resp.req.client])

GuardedRoutes ==
    {"task_list", "task_create", "task_detail", "task_edit", "task_delete", "task_toggle"}

\* The step serves a request of these routes made without a session.
StepUnauthenticated(routes) == StepServes(routes) /\ StepUser = Absent

RedirectsToLoginKeepingPath ==
    /\ resp'.out.status = 302
    /\ resp'.out.location = url_for("login", None)
    /\ resp'.out.next = resp'.req.path

\* C4 as claimed: every route marked as requiring authentication, /logout
\* included, answers a request without a session with a redirect to /login
\* that carries the requested path, and leaves the store unchanged.
C4_AsClaimed ==
    [][ StepUnauthenticated(GuardedRoutes \cup {"logout"}) =>
          RedirectsToLoginKeepingPath /\ StoreUnchanged ]_vars

\* C4 as amended: this holds of the task routes; /logout has no guard and
\* answers with a plain redirect to /login that carries no path; the store is
\* unchanged in both cases.
C4_GuardedRoutesRedirect ==
    [][ /\ StepUnauthenticated(GuardedRoutes) =>
             RedirectsToLoginKeepingPath /\ StoreUnchanged
        /\ StepUnauthenticated({"logout"}) =>
             /\ resp'.out.status = 302
             /\ resp'.out.location = url_for("login", None)
             /\ resp'.out.next = NoPath
             /\ StoreUnchanged
      ]_vars

\* C4 witness: a delete request without a session was redirected to /login.
C4_Witness ==
    /\ resp.req.route = "task_delete"
    /\ session[resp.req.client] = Absent
    /\ resp.out.next = url_for("task_delete", The(resp.req.tid))
    /\ tasks # {}

\* C5 (not found, never forbidden): an edit, delete or toggle request of a
\* logged-in user for a task id they do not own gets the one not-found response,
\* whether or not a task with that id exists, and changes nothing.
C5_UnownedIsNotFound ==
    [][ (/\ StepServes({"task_edit", "task_delete", "task_toggle"})
         /\ is_authenticated(resp'.req.client)
         /\ \A t \in tasks : t.id = The(resp'.req.tid) => ~OwnedBy(t, StepUser)) =>
          resp'.out = not_found_error /\ StoreUnchanged ]_vars

\* C5 witness: not-found for a task that exists and belongs to another user.
C5_Witness ==
    /\ resp.req.route \in {"task_edit", "task_delete", "task_toggle"}
    /\ resp.out = not_found_error
    /\ \E t \in tasks : t.id = The(resp.req.tid) /\ ~OwnedBy(t, session[resp.req.client])

\* C6 (unique users): no two stored users share a username, an email or an id,
\* under every interleaving of the pre-checks and inserts of concurrent
\* register requests.
C6_UniqueUsers ==
    \A u1, u2 \in users :
        (u1.username = u2.username \/ u1.email = u2.email \/ u1.id = u2.id) => u1 = u2

\* C6 witness: a register request passed its pre-check, and its insert was then
\* rejected because a concurrent request had stored the same username.
C6_Witness ==
    /\ resp.req.route = "register"
    /\ resp.out = internal_error
    /\ \E u \in users : u.username = FormUsername(The(resp.req.form))

\* The step is the insert of browser c's register request.
StepRegisterInsert(c) == pending[c] # Absent /\ pending'[c] = Absent

\* C7 as claimed: a register request whose insert the unique constraint rejects
\* ends like a failed pre-check: the form again, with the duplicate-username or
\* duplicate-email message.
C7_ConstraintViolationIsDuplicate ==
    [][ \A c \in Clients :
          (StepRegisterInsert(c) /\ UsersUniqueViolation(The(pending[c]))) =>
             resp'.out = render_template("register.html",
                            IF \E u \in users : u.username = The(pending[c]).username
                            THEN "dup_username" ELSE "dup_email", <<>>)
      ]_vars

\* Browser c, not logged in, starts a register request with form f.
StepRegisterPost(c, f) ==
    /\ pending[c] = Absent
    /\ session[c] = Absent
    /\ \/ resp' # Idle /\ resp'.req = Request(c, "register", "POST", Absent, Some(f))
       \/ pending'[c] # Absent /\ The(pending'[c]).form = f

\* The fields of f pass register's presence, confirmation and length checks.
RegisterFieldsValid(f) ==
    /\ strip(f.username) # <<>> /\ strip(f.email) # <<>> /\ f.password # <<>>
    /\ f.password = f.confirm_password
    /\ Len(f.password) >= 6

\* The register request of the step is answered with the form and this message;
\* no user is added, no session is established and nothing is left to insert.
RegisterRejected(messages) ==
    /\ resp' # Idle
    /\ resp'.out.status = 200
    /\ resp'.out.body.template = "register.html"
    /\ resp'.out.flash \in messages
    /\ UNCHANGED <<users, session, pending>>

\* C8 (duplicates): once a user is stored, an otherwise valid register request
\* from a browser that is not logged in is rejected as a duplicate username when
\* its username is exactly a stored one, and as a duplicate email when its email
\* equals a stored one ignoring case (as a duplicate username if its username
\* is taken too); no user is added and no session is established.
C8_DuplicateRejected ==
    [][ \A c \in Clients, f \in AuthRegForms :
          (StepRegisterPost(c, f) /\ RegisterFieldsValid(f)) =>
             /\ (\E u \in users : u.username = f.username) =>
                    RegisterRejected({"dup_username"})
             /\ (\E u \in users : lower(u.email) = lower(f.email)) =>
                    /\ RegisterRejected({"dup_username", "dup_email"})
                    /\ (\A u \in users : u.username # strip(f.username)) =>
                           resp'.out.flash = "dup_email"
      ]_vars

\* C8 witness: a request rejected as a duplicate email whose email differs from
\* the stored one in case only.
C8_Witness ==
    /\ resp.req.route = "register"
    /\ resp.out.flash = "dup_email"
    /\ \A u \in users : u.email # The(resp.req.form).email
    /\ \E u \in users : u.email = lower(The(resp.req.form).email)

\* The step is a toggle that found its task.
StepToggles ==
    StepServes({"task_toggle"}) /\ resp'.out.location = url_for("task_list", None)

\* C9 (toggle is an involution): a toggle leaves the task with the negation of
\* its flag, and a toggle that follows a toggle of the same task with no other
\* write to that task in between leaves it with the flag it had before the two.
C9_ToggleTwice ==
    [][ StepToggles =>
          /\ \E t \in tasks : t.id = The(resp'.req.tid)
          /\ \A t \in tasks : t.id = The(resp'.req.tid) =>
                \E t2 \in tasks' :
                   /\ t2.id = t.id
                   /\ t2.completed = ~t.completed
                   /\ toggleHist[t.id] # Absent =>
                         t2.completed = The(toggleHist[t.id])
      ]_vars

\* C9 witness: the second of two consecutive toggles of a task has been served.
C9_Witness ==
    /\ resp.req.route = "task_toggle"
    /\ resp.out.location = url_for("task_list", None)
    /\ resp.prior # Absent
    /\ \E t \in tasks : t.id = The(resp.req.tid) /\ t.completed = The(resp.prior)

\* Task id i is stored before and after the step with different flags.
FlagChanged(i) ==
    \E t \in tasks, t2 \in tasks' : t.id = i /\ t2.id = i /\ t.completed # t2.completed

\* C10 as claimed: the flag of an existing task changes only in a toggle.
C10_OnlyToggleFlips ==
    [][ \A i \in TaskIds : FlagChanged(i) => StepServes({"task_toggle"}) ]_vars

\* C10 as amended: the flag of an existing task changes only in a toggle or in
\* an edit that passes validation, both requested for that task by its owner;
\* the edit sets the flag to whether the form field completed is 'on'.
C10_OnlyToggleOrEditFlips ==
    [][ \A i \in TaskIds : FlagChanged(i) =>
          /\ StepServes({"task_toggle", "task_edit"})
          /\ resp'.req.method = "POST"
          /\ resp'.req.tid = Some(i)
          /\ \E t \in tasks : t.id = i /\ OwnedBy(t, StepUser)
          /\ resp'.req.route = "task_edit" =>
                /\ ValidateTask(The(resp'.req.form)) = "ok"
                /\ \A t2 \in tasks' : t2.id = i =>
                      t2.completed = (The(resp'.req.form).completed = Some("on"))
      ]_vars

\* C10 witness: an edit has changed the flag of the task it edited.
C10_Witness ==
    /\ resp.req.route = "task_edit"
    /\ resp.req.method = "POST"
    /\ resp.out.status = 302
    /\ resp.out.flash = "task_updated"
    /\ The(resp.req.form).completed = Some("on")
    /\ toggleHist[The(resp.req.tid)] = Absent
    /\ \E t \in tasks : t.id = The(resp.req.tid) /\ t.completed

\* The last response is a rendered list page.
ListServed ==
    /\ resp # Idle
    /\ resp.req.route = "task_list"
    /\ resp.out.status = 200

\* What that page shows, the tasks on it, and the tasks of the user it is for.
Listing == resp.out.body.data[1]
ListedSet == {Listing.tasks[i] : i \in DOMAIN Listing.tasks}
Mine == {t \in tasks : OwnedBy(t, session[resp.req.client])}

\* The tasks the same request shows when its filter is "all".
ListedByAll ==
    UNION { {out.body.data[1].tasks[i] : i \in DOMAIN out.body.data[1].tasks} :
            out \in ListOutcomes(The(session[resp.req.client]), Some("all"),
                                 The(resp.req.form).sort) }

\* C11 (overdue filter): a list page asked for with filter=overdue shows, each
\* once, exactly those tasks of the filter=all page that are not completed,
\* have a due date, and whose due date is strictly before the clock's instant
\* at the query; a task due at that very instant is not shown.
C11_OverdueExactly ==
    ListServed /\ The(resp.req.form).filter = Some("overdue") =>
       /\ ListedSet = {t \in ListedByAll :
                          /\ t.completed = FALSE
                          /\ t.due_date # Absent
                          /\ DtLess(The(t.due_date), now)}
       /\ Len(Listing.tasks) = Cardinality(ListedSet)

\* C11 witness: the overdue page shows a task while the user has a pending
\* task due at this very instant, which is left out.
C11_Witness ==
    /\ ListServed
    /\ The(resp.req.form).filter = Some("overdue")
    /\ ListedSet # {}
    /\ \E t \in Mine : ~t.completed /\ t.due_date = Some(now) /\ t \notin ListedSet

\* C12 (date sort): on a list page asked for with sort=date, under any filter,
\* no task without a due date stands before a task with one, and the tasks
\* with a due date stand in non-decreasing order of due date.
C12_DateSortNullsLast ==
    ListServed /\ The(resp.req.form).sort = Some("date") =>
       \A i, j \in DOMAIN Listing.tasks :
          i < j =>
             /\ Listing.tasks[i].due_date = Absent => Listing.tasks[j].due_date = Absent
             /\ Listing.tasks[i].due_date # Absent /\ Listing.tasks[j].due_date # Absent =>
                   ~DtLess(The(Listing.tasks[j].due_date), The(Listing.tasks[i].due_date))

\* C12 witness: a page sorted by date on which a task with a due date is
\* followed by one without, although the one without was created first.
C12_Witness ==
    /\ ListServed
    /\ The(resp.req.form).sort = Some("date")
    /\ Len(Listing.tasks) >= 2
    /\ Listing.tasks[1].due_date # Absent
    /\ Listing.tasks[Len(Listing.tasks)].due_date = Absent
    /\ Listing.tasks[Len(Listing.tasks)].id < Listing.tasks[1].id

\* C13 (counts): on every list page, whatever filter and sort were asked for,
\* the total, pending and completed counts are the numbers of all tasks, of
\* tasks not completed and of tasks completed that the page's user owns;
\* these numbers depend on the store and the user alone.
C13_CountsIgnoreFilter ==
    ListServed =>
       /\ Listing.total_tasks = Cardinality(Mine)
       /\ Listing.pending_count = Cardinality({t \in Mine : t.completed = FALSE})
       /\ Listing.completed_count = Cardinality({t \in Mine : t.completed = TRUE})

\* C13 witness: a filtered page that shows fewer tasks than the user owns,
\* with both kinds of task counted.
C13_Witness ==
    /\ ListServed
    /\ The(resp.req.form).filter = Some("pending")
    /\ Len(Listing.tasks) < Listing.total_tasks
    /\ Listing.pending_count > 0
    /\ Listing.completed_count > 0

\* The filter and sort values task_list knows.
KnownFilters == {"all", "pending", "completed", "overdue"}
KnownSorts == {"created", "date", "title"}
Unknown(arg, known) == arg = Absent \/ The(arg) \notin known

\* C14 (defaults): a list request whose filter is missing or not one of all,
\* pending, completed, overdue gets a page that filter=all can give, one whose
\* sort is missing or not one of created, date, title gets a page that
\* sort=created can give, with the tasks in descending order of creation time;
\* and every list request of a logged-in browser gets a page, not an error.
C14_UnknownArgsDefault ==
    resp # Idle /\ resp.req.route = "task_list" /\ session[resp.req.client] # Absent =>
       /\ resp.out.status = 200
       /\ Unknown(The(resp.req.form).filter, KnownFilters) =>
             resp.out \in ListOutcomes(The(session[resp.req.client]), Some("all"),
                                       The(resp.req.form).sort)
       /\ Unknown(The(resp.req.form).sort, KnownSorts) =>
             /\ resp.out \in ListOutcomes(The(session[resp.req.client]),
                                          The(resp.req.form).filter, Some("created"))
             /\ \A i, j \in DOMAIN Listing.tasks :
                   i < j => ~DtLess(Listing.tasks[i].created_at,
                                    Listing.tasks[j].created_at)

\* C14 witness: a page for an unknown filter and an unknown sort that shows a
\* completed task and, after it, a pending task created earlier.
C14_Witness ==
    /\ ListServed
    /\ The(resp.req.form).filter = Some("late")
    /\ The(resp.req.form).sort = Some("due")
    /\ Len(Listing.tasks) = 2
    /\ Listing.tasks[1].completed /\ ~Listing.tasks[2].completed
    /\ DtLess(Listing.tasks[2].created_at, Listing.tasks[1].created_at)

\* The last response answers a posted task form that reached validation.
FormAnswered ==
    /\ resp # Idle
    /\ resp.req.route \in {"task_create", "task_edit"}
    /\ resp.req.method = "POST"
    /\ resp.out # unauthorized(resp.req)
    /\ resp.out # not_found_error

\* The four checks on a posted task form.
TitlePresent(f) == \E i \in DOMAIN f.title : ~IsSpace(f.title[i])
TitleFits(f) == Len(strip(f.title)) <= 200
DescriptionFits(f) == Len(strip(f.description)) <= 1000
DueDateParses(f) ==
    (\E i \in DOMAIN f.due_date : ~IsSpace(f.due_date[i])) =>
        strptime(strip(f.due_date)) # Absent

\* The form page with this error is the response.
FormError(message) ==
    /\ resp.out.status = 200
    /\ resp.out.body.template = "task_form.html"
    /\ resp.out.flash = message

\* C15 (validation order): a posted create or edit form is answered with the
\* error of the first check it fails, in the order title presence, title
\* length, description length, due-date parse, whatever it fails after that
\* one, and it is accepted exactly when it passes all four.
C15_FirstFailingCheck ==
    FormAnswered =>
       LET f == The(resp.req.form) IN
       /\ FormError("title_required") <=> ~TitlePresent(f)
       /\ FormError("title_too_long") <=> TitlePresent(f) /\ ~TitleFits(f)
       /\ FormError("description_too_long") <=>
             TitlePresent(f) /\ TitleFits(f) /\ ~DescriptionFits(f)
       /\ FormError("due_date_format") <=>
             TitlePresent(f) /\ TitleFits(f) /\ DescriptionFits(f) /\ ~DueDateParses(f)
       /\ (resp.out.status = 302 /\ resp.out.location = url_for("task_list", None)) <=>
             TitlePresent(f) /\ TitleFits(f) /\ DescriptionFits(f) /\ DueDateParses(f)

\* C15 witness: a form whose title is too long, whose description is too long
\* and whose due date does not parse is answered with the title's error.
C15_Witness ==
    /\ FormAnswered
    /\ FormError("title_too_long")
    /\ ~DescriptionFits(The(resp.req.form))
    /\ ~DueDateParses(The(resp.req.form))

\* The form fails at least one of the four checks.
FailsValidation(f) ==
    ~(TitlePresent(f) /\ TitleFits(f) /\ DescriptionFits(f) /\ DueDateParses(f))

\* C16 (failed validation writes nothing): a step that serves a posted create
\* or edit form failing validation leaves users, tasks and ownership links
\* as they were, so no task or link is added and the edited task keeps its
\* title, description, due date and flag for every later request.
C16_InvalidFormWritesNothing ==
    [][ /\ StepServes({"task_create", "task_edit"})
        /\ resp'.req.method = "POST"
        /\ FailsValidation(The(resp'.req.form))
        => StoreUnchanged
      ]_vars

\* C16 witness: an edit whose due date does not parse was answered with the
\* form, and the task it aimed at still has another title than the one sent.
C16_Witness ==
    /\ FormAnswered
    /\ resp.req.route = "task_edit"
    /\ FormError("due_date_format")
    /\ \E t \in tasks : /\ t.id = The(resp.req.tid)
                         /\ t.title # strip(The(resp.req.form).title)
                         /\ t.completed # FormCompleted(The(resp.req.form))

\* The step serves a posted login form of a browser that is not logged in.
StepLoginPost ==
    /\ StepServes({"login"})
    /\ resp'.req.method = "POST"
    /\ session[resp'.req.client] = Absent

\* The one answer a failed login gets.
LoginRejected == resp'.out = render_template("login.html", "invalid_login", <<>>)

\* The stored hash of user u is a hash of this password.
HashOf(u, password) ==
    u.password_hash = generate_password_hash(password, u.password_hash.salt)

\* The step logs the browser in as a user whose stored username is `name`
\* and whose stored hash is one of the submitted password.
LogsInAs(name) ==
    \E u \in users : /\ session'[resp'.req.client] = Some(u.id)
                      /\ u.username = name
                      /\ HashOf(u, The(resp'.req.form).form.password)

\* C17 as claimed: a login is established only for a user whose username is
\* exactly the submitted text; otherwise the generic rejection is given.
C17_AsClaimed ==
    [][ StepLoginPost =>
          IF session'[resp'.req.client] # Absent
          THEN LogsInAs(The(resp'.req.form).form.username)
          ELSE LoginRejected
      ]_vars

\* C17 (login): a posted login establishes a session for user u only if u's
\* username equals the submitted username with surrounding whitespace removed
\* and the submitted password, taken as typed, verifies against u's stored
\* hash; otherwise no session is established and the answer is the one
\* generic rejection, the same for an unknown username and a wrong password.
C17_LoginOnlyWithCredentials ==
    [][ StepLoginPost =>
          IF session'[resp'.req.client] # Absent
          THEN LogsInAs(strip(The(resp'.req.form).form.username))
          ELSE LoginRejected
      ]_vars

\* C17 witness: a login with blanks around the username was accepted for the
\* user of that name.
C17_Witness ==
    /\ resp # Idle
    /\ resp.req.route = "login"
    /\ resp.out.flash = "logged_in"
    /\ The(resp.req.form).form.username = Str_sp_a_sp
    /\ \E u \in users : session[resp.req.client] = Some(u.id) /\ u.username = Str_a

\* C18 (logout): a logout leaves the browser's session without a user and
\* changes no user, task or ownership link; while a session is without a
\* user every task request made in it is turned away by the login guard and
\* changes nothing; and a session without a user gets one only by a login or
\* a registration of that browser that succeeds.
C18_LogoutEndsSession ==
    [][ /\ StepServes({"logout"}) =>
              /\ session'[resp'.req.client] = Absent
              /\ \A c \in Clients \ {resp'.req.client} : session'[c] = session[c]
              /\ StoreUnchanged
        /\ StepUnauthenticated(GuardedRoutes) =>
              /\ resp'.out = unauthorized(resp'.req)
              /\ session' = session
              /\ StoreUnchanged
        /\ \A c \in Clients :
              session[c] = Absent /\ session'[c] # Absent =>
                 /\ StepServes({"login", "register"})
                 /\ resp'.req.client = c
                 /\ resp'.req.method = "POST"
                 /\ resp'.out.flash \in {"logged_in", "registered"}
      ]_vars

\* C18 witness: a logout of a logged-in browser has been served while that
\* user owns a stored task, and the session is now without a user.
C18_Witness ==
    /\ resp # Idle
    /\ resp.req.route = "logout"
    /\ resp.prior # Absent
    /\ session[resp.req.client] = Absent
    /\ \E t \in tasks : OwnedBy(t, resp.prior)

\* The conditions the claim puts on a register form: the three fields are
\* non-empty after trimming, the passwords agree, the password has 6 characters.
RegisterFieldsAsClaimed(f) ==
    /\ strip(f.username) # <<>>
    /\ strip(f.email) # <<>>
    /\ strip(f.password) # <<>>
    /\ f.password = f.confirm_password
    /\ Len(f.password) >= 6

\* C19 as claimed: a register request stores a user and establishes a session
\* only if its form meets these conditions, and then the stored email is the
\* submitted one, trimmed and in lower case; a form that fails one of them is
\* turned away at once, with no user stored and no session established.
C19_RegisterOnlyValid ==
    [][ \A c \in Clients :
          /\ StepRegisterInsert(c) /\ (users' # users \/ session'[c] # session[c]) =>
                /\ RegisterFieldsAsClaimed(The(pending[c]).form)
                /\ \E u \in users' \ users :
                      /\ u.email = lower(strip(The(pending[c]).form.email))
                      /\ session'[c] = Some(u.id)
          /\ \A f \in AuthRegForms :
                StepRegisterPost(c, f) /\ ~RegisterFieldsAsClaimed(f) =>
                   /\ pending'[c] = Absent
                   /\ users' = users
                   /\ session' = session
      ]_vars

\* C20 as claimed (no lost update): when a toggle of a task is committed
\* after another toggle of that task, with no other write to the task in
\* between, the task is left with the flag it had before the two, however
\* the two requests interleaved.
C20_NoLostUpdate ==
    [][ StepToggles =>
          \A t \in tasks' :
             t.id = The(resp'.req.tid) /\ toggleHist[t.id] # Absent =>
                t.completed = The(toggleHist[t.id])
      ]_vars

\* C21 as claimed (counts agree): on every list page the total is the sum of
\* the pending and the completed count, and the page shows at most as many
\* tasks as the total, also when other requests have created, deleted or
\* toggled tasks of the user between the queries of the list request.
C21_CountsAgree ==
    ListServed =>
       /\ Listing.total_tasks = Listing.pending_count + Listing.completed_count
       /\ Len(Listing.tasks) <= Listing.total_tasks

=============================================================================
